---- MODULE Spec2Model ----
(***************************************************************************)
(* The StageX digest updater of packages/tee-login/tee: the two scripts    *)
(* update_stagex_hashes.py (variant "docker", registry manifest strategy)  *)
(* and x86/update.py (variant "index", package-index strategy).            *)
(*                                                                         *)
(* Text is a sequence of one-character strings, so the regular expressions *)
(* of the scripts are modelled on characters, with Python's leftmost,      *)
(* greedy, backtracking semantics for the patterns the scripts use.        *)
(***************************************************************************)
EXTENDS Integers, Sequences, FiniteSets, TLC

VARIABLES
  variant,           \* which script runs: "docker" or "index"
  mode,              \* "main": a run of main; "rewrite": update_containerfile called directly
  pc,                \* the statement the process is at
  fs_path,           \* the text of <path>
  fs_backup,         \* <<>> when <path>.backup does not exist, else <<its text>>
  images,            \* main: the list extract_stagex_images returned
  idx,               \* main: position of the for loop in images
  updates,           \* the dict updates, in insertion order
  failed_images,     \* main: the list failed_images
  exit_code,         \* -1 while the process runs, then its exit status
  calls,             \* the calls of get_arm64_hash so far: [name, result]
  content,           \* update_containerfile: <<>> when unbound, else <<content>>
  original_content,  \* update_containerfile: <<>> when unbound, else <<original_content>>
  wstep,             \* update_containerfile: which of the two writes is next
  file0,             \* the text of <path> when the process started
  backup0,           \* fs_backup when the current call of update_containerfile started
  applied            \* the text of <path> after each returned call of update_containerfile

vars == <<variant, mode, pc, fs_path, fs_backup, images, idx, updates,
          failed_images, exit_code, calls, content, original_content,
          wstep, file0, backup0, applied>>

(***************************************************************************)
(* Bounds of the model.                                                    *)
(***************************************************************************)
\* lines per build file in a run of main
MaxLines == 3
\* lines per build file handed to update_containerfile directly
MaxRwLines == 2
\* successive calls of update_containerfile with one update map
MaxApply == 2
\* number of cut points at which a crash may leave a partly written file
MaxCuts == 2

\* [a-f0-9]{64}: the length of a sha256 digest in hex
DigestLen == 64

(***************************************************************************)
(* Text helpers.                                                           *)
(***************************************************************************)
Min(S) == CHOOSE x \in S : \A y \in S : x <= y
Max(S) == CHOOSE x \in S : \A y \in S : x >= y

\* Python's \s on the characters of the model's alphabet
IsSpace(c) == c \in {" ", "\t", "\n", "\r"}
\* [a-f0-9]
IsHex(c) == c \in {"a", "b", "c", "d", "e", "f",
                   "0", "1", "2", "3", "4", "5", "6", "7", "8", "9"}
\* [^@:]
NotAtColon(c) == c \notin {"@", ":"}
\* [^@\s]
NotAtSpace(c) == c # "@" /\ ~IsSpace(c)
\* [^/]
NotSlash(c) == c # "/"
\* . (anything but a newline)
NotNewline(c) == c # "\n"

\* c is of the character class cls
InClass(cls, c) ==
  CASE cls = "space" -> IsSpace(c)
    [] cls = "not_at_colon" -> NotAtColon(c)
    [] cls = "not_at_space" -> NotAtSpace(c)
    [] cls = "not_slash" -> NotSlash(c)
    [] cls = "not_newline" -> NotNewline(c)

\* the end (exclusive) of the longest run of characters of class cls from i
Run(cls, s, i) ==
  LET stop == {j \in i..Len(s) : ~InClass(cls, s[j])}
  IN IF stop = {} THEN Len(s) + 1 ELSE Min(stop)

\* the literal lit stands in s at position i
MatchLit(s, i, lit) ==
  /\ i >= 1
  /\ i + Len(lit) - 1 <= Len(s)
  /\ \A k \in 1..Len(lit) : s[i + k - 1] = lit[k]

\* str.startswith
StartsWith(s, lit) == MatchLit(s, 1, lit)

\* str.strip(): leading and trailing whitespace removed
Strip(s) ==
  LET keep == {j \in 1..Len(s) : ~IsSpace(s[j])}
  IN IF keep = {} THEN <<>> ELSE SubSeq(s, Min(keep), Max(keep))

\* file.readlines() followed, per line, by the strip of the loop body: the
\* text is cut after every newline; a last piece without newline is a line
RECURSIVE SplitLines(_)
SplitLines(s) ==
  IF s = <<>> THEN <<>>
  ELSE LET e == Run("not_newline", s, 1)
       IN IF e > Len(s) THEN <<s>>
          ELSE <<SubSeq(s, 1, e)>> \o SplitLines(SubSeq(s, e + 1, Len(s)))

RECURSIVE JoinLines(_)
JoinLines(ls) ==
  IF ls = <<>> THEN <<>> ELSE Head(ls) \o <<"\n">> \o JoinLines(Tail(ls))

(***************************************************************************)
(* Literals of the two scripts.                                            *)
(***************************************************************************)
LitFROM == <<"F", "R", "O", "M">>
LitAS == <<"A", "S">>
LitStagex == <<"s", "t", "a", "g", "e", "x", "/">>
LitRegVar == <<"$", "{", "S", "T", "A", "G", "E", "X", "_", "R", "E", "G", "}", "/">>
LitAtSha == <<"@", "s", "h", "a", "2", "5", "6", ":">>
LitSha == <<"s", "h", "a", "2", "5", "6", ":">>
LitLocal == <<"l", "o", "c", "a", "l">>
LitCore == <<"c", "o", "r", "e", "-">>
LitUser == <<"u", "s", "e", "r", "-">>
LitCaCerts == LitCore \o <<"c", "a", "-", "c", "e", "r", "t", "i", "f", "i", "c", "a", "t", "e", "s">>
LitLinuxNitro == LitUser \o <<"l", "i", "n", "u", "x", "-", "n", "i", "t", "r", "o">>

(***************************************************************************)
(* extract_stagex_images                                                   *)
(***************************************************************************)
\* the first of the priority-ordered candidates cands among those, given by
\* their indices ok, that lead to a match, or 0: the order in which a
\* backtracking matcher tries alternatives
FirstOk(ok, cands) == IF ok = {} THEN 0 ELSE cands[Min(ok)]

\* ([^@:]+)[@:]([^@\s]+)\s+AS\s+(.+)$ matched in line from position q:
\* the end of the name, or 0 when there is no match
ExtractTail(line, q) ==
  LET n == Run("not_at_colon", line, q)
      r == Run("not_at_space", line, n + 1)
      w == Run("space", line, r)
      a == Run("space", line, w + 2)
      \* \s+ gives characters back to (.+) when nothing follows the run
      alias == {j \in (w + 3)..Len(line) : j <= a /\ NotNewline(line[j])}
  IN IF /\ q >= 1
        /\ n > q
        /\ n <= Len(line)
        /\ r > n + 1
        /\ w > r
        /\ MatchLit(line, w, LitAS)
        /\ alias # {}
        /\ \A j \in Max(alias)..Len(line) : NotNewline(line[j])
     THEN n ELSE 0

\* where the image name may start after FROM\s+, in the order the pattern of
\* the variant tries it
NameStarts(v, s, e) ==
  IF v = "docker"
  THEN IF MatchLit(s, e, LitStagex) THEN <<e + Len(LitStagex)>> ELSE <<>>
  ELSE (IF MatchLit(s, e, LitRegVar) THEN <<e + Len(LitRegVar)>> ELSE <<>>)
       \o (LET p == Run("not_slash", s, e)
           IN IF p > e /\ p <= Len(s) THEN <<p + 1>> ELSE <<>>)
       \o <<e>>

\* FROM\s+ at position i of s, \s+ tried from its longest run downwards:
\* the sequence of positions at which the image name may start
RECURSIVE StartsFrom(_, _, _, _)
StartsFrom(v, s, lo, e) ==
  IF e < lo THEN <<>> ELSE NameStarts(v, s, e) \o StartsFrom(v, s, lo, e - 1)

FromStarts(v, s, i) ==
  IF ~MatchLit(s, i, LitFROM) THEN <<>>
  ELSE StartsFrom(v, s, i + 5, Run("space", s, i + 4))

\* re.match of the FROM pattern on a stripped line, and the policy on the
\* reference token: a record for a kept entry, ok = FALSE otherwise
NoEntry == [ok |-> FALSE]

ExtractLine(v, line) ==
  LET cands == FromStarts(v, line, 1)
      q == FirstOk({k \in 1..Len(cands) : ExtractTail(line, cands[k]) # 0}, cands)
  IN IF line = <<>> \/ line[1] = "#" \/ q = 0 THEN NoEntry
     ELSE LET n == ExtractTail(line, q)
              r == Run("not_at_space", line, n + 1)
              ref == SubSeq(line, n + 1, r - 1)
          IN IF ref = LitLocal \/ ~StartsWith(ref, LitSha) THEN NoEntry
             ELSE [ok |-> TRUE,
                   name |-> SubSeq(line, q, n - 1),
                   hash |-> SubSeq(ref, Len(LitSha) + 1, Len(ref)),
                   line |-> line]

RECURSIVE ExtractEntries(_, _)
ExtractEntries(v, ls) ==
  IF ls = <<>> THEN <<>>
  ELSE LET e == ExtractLine(v, Strip(Head(ls)))
       IN (IF e.ok THEN <<e>> ELSE <<>>) \o ExtractEntries(v, Tail(ls))

extract_stagex_images(v, text) == ExtractEntries(v, SplitLines(text))

(***************************************************************************)
(* update_containerfile: the substitution                                  *)
(***************************************************************************)
\* a pattern that takes the name as a prefix of the image's name
MatchNamePrefix(s, q, name) ==
  IF MatchLit(s, q, name) THEN Run("not_at_space", s, q + Len(name)) ELSE 0

\* {re.escape(image_name)}: the name stands at q, literally; the position
\* after it, or 0
MatchName(s, q, name) ==
  IF MatchLit(s, q, name) THEN q + Len(name) ELSE 0

\* @sha256:)[a-f0-9]{64}(\s+AS\s+.+) from position p (the end of the name):
\* the match as [d |-> start of the digest, e |-> end of the match], or d = 0
NoMatch == [d |-> 0, e |-> 0]

DigestTail(s, p) ==
  LET d == p + Len(LitAtSha)
      h == d + DigestLen
      w == Run("space", s, h)
      a == Run("space", s, w + 2)
      dot == {j \in (w + 3)..Len(s) : j <= a /\ NotNewline(s[j])}
  IN IF /\ p >= 1
        /\ MatchLit(s, p, LitAtSha)
        /\ h - 1 <= Len(s)
        /\ \A j \in d..(h - 1) : IsHex(s[j])
        /\ w > h
        /\ MatchLit(s, w, LitAS)
        /\ dot # {}
     THEN [d |-> d, e |-> Run("not_newline", s, Max(dot))]
     ELSE NoMatch

\* the pattern of the variant for image name, tried at position i
MatchAt(v, s, i, name) ==
  LET cands == FromStarts(v, s, i)
      q == FirstOk({k \in 1..Len(cands) :
                      DigestTail(s, MatchName(s, cands[k], name)).d # 0}, cands)
  IN IF q = 0 THEN NoMatch ELSE DigestTail(s, MatchName(s, q, name))

\* \g<1>{new_hash}\g<2>: the matched text s[i..e-1] with its digest replaced
Replacement(s, i, m, new_hash) ==
  SubSeq(s, i, m.d - 1) \o new_hash \o SubSeq(s, m.d + DigestLen, m.e - 1)

\* re.sub(pattern, replacement, content): leftmost matches, left to right,
\* each search resuming where the previous match ended
RECURSIVE SubFrom(_, _, _, _, _)
SubFrom(v, s, i, name, new_hash) ==
  LET F == {j \in i..Len(s) : MatchLit(s, j, LitFROM)}
  IN IF F = {} THEN SubSeq(s, i, Len(s))
     ELSE LET j == Min(F)
              m == MatchAt(v, s, j, name)
          IN IF m.d = 0
             THEN SubSeq(s, i, j) \o SubFrom(v, s, j + 1, name, new_hash)
             ELSE SubSeq(s, i, j - 1) \o Replacement(s, j, m, new_hash)
                  \o SubFrom(v, s, m.e, name, new_hash)

ReSub(v, name, new_hash, s) == SubFrom(v, s, 1, name, new_hash)

\* for image_name, new_hash in updates.items(): content = re.sub(...)
RECURSIVE SubAll(_, _, _)
SubAll(v, ups, s) ==
  IF ups = <<>> THEN s
  ELSE SubAll(v, Tail(ups), ReSub(v, Head(ups).name, Head(ups).hash, s))

(***************************************************************************)
(* get_arm64_hash                                                          *)
(***************************************************************************)
\* re.search(lit [a-f0-9]{64}) in text: the digest of the first match, or <<>>
SearchDigest(text, lit) ==
  LET hit == {j \in 1..Len(text) :
                /\ MatchLit(text, j, lit)
                /\ j + Len(lit) + DigestLen - 1 <= Len(text)
                /\ \A k \in (j + Len(lit))..(j + Len(lit) + DigestLen - 1) :
                      IsHex(text[k])}
  IN IF hit = {} THEN <<>>
     ELSE SubSeq(text, Min(hit) + Len(lit), Min(hit) + Len(lit) + DigestLen - 1)

ResultNone == [kind |-> "none", digest |-> <<>>]
ResultRaise == [kind |-> "raise", digest |-> <<>>]
ResultDigest(d) == [kind |-> "digest", digest |-> d]

\* the loop over manifest_data: the first linux/arm64 entry whose Ref holds
\* a digest decides; entries are [arch, os, ref]
RECURSIVE ScanManifest(_)
ScanManifest(entries) ==
  IF entries = <<>> THEN ResultNone
  ELSE LET en == Head(entries)
           d == SearchDigest(en.ref, LitAtSha)
       IN IF en.arch = "arm64" /\ en.os = "linux" /\ d # <<>>
          THEN ResultDigest(d)
          ELSE ScanManifest(Tail(entries))

\* update_stagex_hashes.py: docker manifest inspect, json.loads, the scan.
\* Only CalledProcessError and JSONDecodeError are caught.
ResolveDocker(name, out) ==
  CASE out.kind = "no_command" -> ResultRaise       \* FileNotFoundError
    [] out.kind = "nonzero_exit" -> ResultNone      \* CalledProcessError
    [] out.kind = "bad_json" -> ResultNone          \* JSONDecodeError
    [] out.kind = "json_object" -> ResultRaise      \* str has no .get
    [] out.kind = "json_list" -> ScanManifest(out.entries)

\* x86/update.py, before the try: the URL of the image's package page, or
\* ok = FALSE when kind, subpath = image_name.split("-", 1) cannot unpack
Replace(s, from, to) == [j \in 1..Len(s) |-> IF s[j] = from THEN to ELSE s[j]]

PackageUrl(name) ==
  LET dash == {j \in 1..Len(name) : name[j] = "-"}
      Url(kind, sub) ==
        [ok |-> TRUE, kind |-> kind, subpath |-> Replace(sub, "-", "/")]
  IN CASE name = LitCaCerts ->
            [ok |-> TRUE, kind |-> <<"c", "o", "r", "e">>,
             subpath |-> SubSeq(name, Len(LitCore) + 1, Len(name))]
       [] name = LitLinuxNitro ->
            [ok |-> TRUE, kind |-> <<"u", "s", "e", "r">>,
             subpath |-> SubSeq(name, Len(LitUser) + 1, Len(name))]
       [] OTHER ->
            IF StartsWith(name, LitCore)
            THEN Url(<<"c", "o", "r", "e">>, SubSeq(name, Len(LitCore) + 1, Len(name)))
            ELSE IF StartsWith(name, LitUser)
            THEN Url(<<"u", "s", "e", "r">>, SubSeq(name, Len(LitUser) + 1, Len(name)))
            ELSE IF dash = {}
            THEN [ok |-> FALSE, kind |-> <<>>, subpath |-> <<>>]
            ELSE Url(SubSeq(name, 1, Min(dash) - 1),
                     SubSeq(name, Min(dash) + 1, Len(name)))

LitArm64Sha == <<"l", "i", "n", "u", "x", "/", "a", "r", "m", "6", "4", " ">> \o LitSha

\* soup.find(string=...): the first text node of the page the arm64 pattern
\* is found in, then re.search("sha256:...") in that node
RECURSIVE ScanPage(_)
ScanPage(nodes) ==
  IF nodes = <<>> THEN ResultNone
  ELSE IF SearchDigest(Head(nodes), LitArm64Sha) # <<>>
       THEN ResultDigest(SearchDigest(Head(nodes), LitSha))
       ELSE ScanPage(Tail(nodes))

\* x86/update.py: the URL, then inside try/except Exception the request and
\* the scan of the page
ResolveIndex(name, out) ==
  IF ~PackageUrl(name).ok THEN ResultRaise          \* ValueError, outside the try
  ELSE CASE out.kind = "transport_error" -> ResultNone
         [] out.kind = "http_error" -> ResultNone
         [] out.kind = "page" -> ScanPage(out.nodes)

get_arm64_hash(v, name, out) ==
  IF v = "docker" THEN ResolveDocker(name, out) ELSE ResolveIndex(name, out)

(***************************************************************************)
(* update_containerfile: the comparison and the two writes                 *)
(***************************************************************************)
\* a comparison that always takes the if branch
ChangedAlways(new, old) == TRUE

\* if content != original_content
Changed(new, old) == new # old

\* the updated file written before the backup
WriteOrderSwapped == <<"path", "backup">>

\* the order of the two open/write pairs of the if branch
WriteOrder == <<"backup", "path">>

\* a file opened in mode 'a' keeps what it held
OpenForAppend(old) == old

\* open(..., 'w') truncates what the file held
OpenForWrite(old) == <<>>

\* the file as a text, <<>> when it does not exist
TextOf(file) == IF file = <<>> THEN <<>> ELSE file[1]

\* f.write(original_content) to the backup, f.write(content) to the path
DataFor(target) ==
  IF target = "backup" THEN original_content[1] ELSE content[1]

\* updates[image_name] = new_hash on a dict that keeps insertion order
DictSet(ups, name, hash) ==
  IF \E k \in 1..Len(ups) : ups[k].name = name
  THEN [k \in 1..Len(ups) |->
          IF ups[k].name = name THEN [name |-> name, hash |-> hash] ELSE ups[k]]
  ELSE Append(ups, [name |-> name, hash |-> hash])

(***************************************************************************)
(* Inputs: build files, update maps, outcomes of the external collaborator *)
(***************************************************************************)
Digest(c) == [i \in 1..DigestLen |-> c]
DigestA == Digest("a")
DigestB == Digest("b")
DigestC == Digest("c")
NewDigests == {DigestA, DigestB}

NameFoo == <<"f", "o", "o">>
NameFooExtra == NameFoo \o <<"-", "e", "x", "t", "r", "a">>
NameCoreFoo == LitCore \o NameFoo
NameBar == <<"b", "a", "r">>

\* FROM <prefix><name><sep><ref> AS <alias>
FromLine(prefix, name, sep, ref, alias) ==
  LitFROM \o <<" ">> \o prefix \o name \o sep \o ref \o <<" ">> \o LitAS
  \o <<" ">> \o alias

Pinned(prefix, name, d, alias) ==
  FromLine(prefix, name, <<"@">>, LitSha \o d, alias)

Comment(line) == <<"#", " ">> \o line

\* the lines a build file of a run of main is made of
MainPool ==
  { Pinned(LitStagex, NameFoo, DigestA, <<"f">>),
    Pinned(LitStagex, NameCoreFoo, DigestA, <<"c">>),
    Pinned(LitStagex, NameFooExtra, DigestA, <<"e">>),
    Comment(Pinned(LitStagex, NameCoreFoo, DigestA, <<"c">>)),
    Pinned(LitStagex, NameFooExtra, <<"a", "b", "c">>, <<"s">>),
    FromLine(LitStagex, NameFooExtra, <<":">>, <<"l", "a", "t", "e", "s", "t">>, <<"t">>),
    FromLine(LitStagex, NameFooExtra, <<":">>, LitLocal, <<"l">>),
    <<>> }

\* the lines a build file handed to update_containerfile is made of
RwPool ==
  { Pinned(LitStagex, NameFoo, DigestA, <<"f">>),
    Pinned(LitStagex, NameFooExtra, DigestA, <<"e">>),
    Pinned(LitStagex, NameCoreFoo, DigestC, <<"c">>),
    Pinned(<<>>, NameFoo, DigestA, <<"g">>),
    Comment(Pinned(LitStagex, NameFoo, DigestA, <<"f">>)),
    FromLine(LitStagex, NameFoo, <<":">>, <<"l", "a", "t", "e", "s", "t">>, <<"t">>) }

RECURSIVE SeqsUpTo(_, _)
SeqsUpTo(S, n) ==
  IF n = 0 THEN {<<>>}
  ELSE LET prev == SeqsUpTo(S, n - 1)
       IN prev \cup {Append(q, x) : q \in {r \in prev : Len(r) = n - 1}, x \in S}

Files(pool, n) == {JoinLines(ls) : ls \in SeqsUpTo(pool, n) \ {<<>>}}

MainFiles == Files(MainPool, MaxLines)
RwFiles == Files(RwPool, MaxRwLines)

\* update maps: one entry, or two entries with distinct names and one digest
RwNames == {NameFoo, NameFooExtra, NameBar}
RwEntries == {[name |-> n, hash |-> d] : n \in RwNames, d \in NewDigests}
RwMaps ==
  {<<u>> : u \in RwEntries}
  \cup {m \in RwEntries \X RwEntries : m[1].name # m[2].name /\ m[1].hash = m[2].hash}

Variants == {"docker", "index"}

Outcome(kind, entries, nodes) ==
  [kind |-> kind, entries |-> entries, nodes |-> nodes]

ManifestEntry(arch, d) ==
  [arch |-> arch, os |-> "linux",
   ref |-> LitStagex \o <<"i">> \o (IF d = <<>> THEN <<>> ELSE LitAtSha \o d)]

DockerOutcomes ==
  { Outcome("no_command", <<>>, <<>>),
    Outcome("nonzero_exit", <<>>, <<>>),
    Outcome("bad_json", <<>>, <<>>),
    Outcome("json_object", <<>>, <<>>),
    Outcome("json_list", <<ManifestEntry("amd64", DigestC)>>, <<>>),
    Outcome("json_list", <<ManifestEntry("arm64", <<>>)>>, <<>>) }
  \cup { Outcome("json_list",
                 <<ManifestEntry("amd64", DigestC), ManifestEntry("arm64", d)>>, <<>>)
         : d \in NewDigests }

LitAmd64Sha == <<"l", "i", "n", "u", "x", "/", "a", "m", "d", "6", "4", " ">> \o LitSha

IndexOutcomes ==
  { Outcome("transport_error", <<>>, <<>>),
    Outcome("http_error", <<>>, <<>>),
    Outcome("page", <<>>, <<LitAmd64Sha \o DigestC>>) }
  \cup { Outcome("page", <<>>, <<LitAmd64Sha \o DigestC, LitArm64Sha \o d>>)
         : d \in NewDigests }

Outcomes(v) == IF v = "docker" THEN DockerOutcomes ELSE IndexOutcomes

(***************************************************************************)
(* The process                                                             *)
(***************************************************************************)
UcPcs == {"uc_read", "uc_sub", "uc_cmp", "uc_open", "uc_write", "uc_ret"}

InitCommon ==
  /\ variant \in Variants
  /\ fs_backup = <<>>
  /\ images = <<>>
  /\ idx = 0
  /\ failed_images = <<>>
  /\ exit_code = -1
  /\ calls = <<>>
  /\ content = <<>>
  /\ original_content = <<>>
  /\ wstep = 0
  /\ file0 = fs_path
  /\ backup0 = <<>>
  /\ applied = <<>>

\* a run of main on a build file
Init ==
  /\ mode = "main"
  /\ pc = "main_extract"
  /\ fs_path \in MainFiles
  /\ updates = <<>>
  /\ InitCommon

\* update_containerfile called with an update map on a build file
InitRW ==
  /\ mode = "rewrite"
  /\ pc = "uc_read"
  /\ fs_path \in RwFiles
  /\ updates \in RwMaps
  /\ InitCommon

\* images = extract_stagex_images(containerfile_path)
MainExtract ==
  /\ pc = "main_extract"
  /\ images' = extract_stagex_images(variant, fs_path)
  /\ idx' = 1
  /\ pc' = "main_loop"
  /\ UNCHANGED <<variant, mode, fs_path, fs_backup, updates, failed_images,
                 exit_code, calls, content, original_content, wstep, file0,
                 backup0, applied>>

\* one iteration of the for loop of main; an exception of get_arm64_hash
\* is caught nowhere and ends the process with a traceback and status 1
MainResolve ==
  /\ pc = "main_loop"
  /\ idx <= Len(images)
  /\ \E out \in Outcomes(variant) :
       LET im == images[idx]
           r == get_arm64_hash(variant, im.name, out)
       IN /\ calls' = Append(calls, [name |-> im.name, result |-> r.kind])
          /\ IF r.kind = "raise"
             THEN /\ pc' = "raised"
                  /\ exit_code' = 1
                  /\ UNCHANGED <<idx, updates, failed_images>>
             ELSE /\ pc' = "main_loop"
                  /\ idx' = idx + 1
                  /\ exit_code' = exit_code
                  /\ updates' = IF r.kind = "digest" /\ r.digest # im.hash
                                THEN DictSet(updates, im.name, r.digest)
                                ELSE updates
                  /\ failed_images' = IF r.kind = "digest" THEN failed_images
                                      ELSE Append(failed_images, im.name)
  /\ UNCHANGED <<variant, mode, fs_path, fs_backup, images, content,
                 original_content, wstep, file0, backup0, applied>>

\* if updates: update_containerfile(...) else: "No updates needed."
MainLoopEnd ==
  /\ pc = "main_loop"
  /\ idx > Len(images)
  /\ pc' = IF updates # <<>> THEN "uc_read" ELSE "main_summary"
  /\ UNCHANGED <<variant, mode, fs_path, fs_backup, images, idx, updates,
                 failed_images, exit_code, calls, content, original_content,
                 wstep, file0, backup0, applied>>

\* if failed_images: sys.exit(1); otherwise main returns
MainSummary ==
  /\ pc = "main_summary"
  /\ exit_code' = IF failed_images # <<>> THEN 1 ELSE 0
  /\ pc' = "exit"
  /\ UNCHANGED <<variant, mode, fs_path, fs_backup, images, idx, updates,
                 failed_images, calls, content, original_content, wstep,
                 file0, backup0, applied>>

\* content = f.read(); original_content = content
UcRead ==
  /\ pc = "uc_read"
  /\ content' = <<fs_path>>
  /\ original_content' = <<fs_path>>
  /\ backup0' = fs_backup
  /\ pc' = "uc_sub"
  /\ UNCHANGED <<variant, mode, fs_path, fs_backup, images, idx, updates,
                 failed_images, exit_code, calls, wstep, file0, applied>>

\* the for loop over updates.items()
UcSub ==
  /\ pc = "uc_sub"
  /\ content' = <<SubAll(variant, updates, content[1])>>
  /\ pc' = "uc_cmp"
  /\ UNCHANGED <<variant, mode, fs_path, fs_backup, images, idx, updates,
                 failed_images, exit_code, calls, original_content, wstep,
                 file0, backup0, applied>>

\* if content != original_content: ... else: "No changes needed."
UcCompare ==
  /\ pc = "uc_cmp"
  /\ IF Changed(content[1], original_content[1])
     THEN pc' = "uc_open" /\ wstep' = 1
     ELSE pc' = "uc_ret" /\ wstep' = wstep
  /\ UNCHANGED <<variant, mode, fs_path, fs_backup, images, idx, updates,
                 failed_images, exit_code, calls, content, original_content,
                 file0, backup0, applied>>

\* with open(..., 'w') as f: the file exists and is cut to nothing
UcOpen ==
  /\ pc = "uc_open"
  /\ IF WriteOrder[wstep] = "backup"
     THEN fs_backup' = <<OpenForWrite(TextOf(fs_backup))>> /\ fs_path' = fs_path
     ELSE fs_path' = OpenForWrite(fs_path) /\ fs_backup' = fs_backup
  /\ pc' = "uc_write"
  /\ UNCHANGED <<variant, mode, images, idx, updates, failed_images,
                 exit_code, calls, content, original_content, wstep, file0,
                 backup0, applied>>

\* f.write(...) and the close at the end of the with block
UcWrite ==
  /\ pc = "uc_write"
  /\ IF WriteOrder[wstep] = "backup"
     THEN fs_backup' = <<TextOf(fs_backup) \o DataFor("backup")>> /\ fs_path' = fs_path
     ELSE fs_path' = fs_path \o DataFor("path") /\ fs_backup' = fs_backup
  /\ IF wstep < Len(WriteOrder)
     THEN pc' = "uc_open" /\ wstep' = wstep + 1
     ELSE pc' = "uc_ret" /\ wstep' = wstep
  /\ UNCHANGED <<variant, mode, images, idx, updates, failed_images,
                 exit_code, calls, content, original_content, file0, backup0,
                 applied>>

\* update_containerfile returns to its caller
UcReturn ==
  /\ pc = "uc_ret"
  /\ applied' = Append(applied, fs_path)
  /\ pc' = IF mode = "main" THEN "main_summary" ELSE "rw_idle"
  /\ UNCHANGED <<variant, mode, fs_path, fs_backup, images, idx, updates,
                 failed_images, exit_code, calls, content, original_content,
                 wstep, file0, backup0>>

\* the caller applies the same update map again
RwReapply ==
  /\ pc = "rw_idle"
  /\ Len(applied) < MaxApply
  /\ pc' = "uc_read"
  /\ UNCHANGED <<variant, mode, fs_path, fs_backup, images, idx, updates,
                 failed_images, exit_code, calls, content, original_content,
                 wstep, file0, backup0, applied>>

\* the process dies inside update_containerfile between two statements
Crash ==
  /\ pc \in UcPcs
  /\ pc' = "crashed"
  /\ exit_code' = 1
  /\ UNCHANGED <<variant, mode, fs_path, fs_backup, images, idx, updates,
                 failed_images, calls, content, original_content, wstep,
                 file0, backup0, applied>>

\* the lengths a write that dies half way may have reached
Cuts(data) == {(Len(data) * c) \div (MaxCuts + 1) : c \in 1..MaxCuts}

\* the process dies during f.write: only a part of the data reached the file
CrashInWrite ==
  /\ pc = "uc_write"
  /\ \E k \in Cuts(DataFor(WriteOrder[wstep])) :
       LET part == SubSeq(DataFor(WriteOrder[wstep]), 1, k)
       IN IF WriteOrder[wstep] = "backup"
          THEN fs_backup' = <<TextOf(fs_backup) \o part>> /\ fs_path' = fs_path
          ELSE fs_path' = fs_path \o part /\ fs_backup' = fs_backup
  /\ pc' = "crashed"
  /\ exit_code' = 1
  /\ UNCHANGED <<variant, mode, images, idx, updates, failed_images, calls,
                 content, original_content, wstep, file0, backup0, applied>>

Next ==
  \/ MainExtract
  \/ MainResolve
  \/ MainLoopEnd
  \/ MainSummary
  \/ UcRead
  \/ UcSub
  \/ UcCompare
  \/ UcOpen
  \/ UcWrite
  \/ UcReturn
  \/ Crash
  \/ CrashInWrite

NextRW ==
  \/ UcRead
  \/ UcSub
  \/ UcCompare
  \/ UcOpen
  \/ UcWrite
  \/ UcReturn
  \/ RwReapply
  \/ Crash
  \/ CrashInWrite

Spec == Init /\ [][Next]_vars
SpecRW == InitRW /\ [][NextRW]_vars

(***************************************************************************)
(* Properties                                                              *)
(***************************************************************************)
\* t occurs in s
Contains(s, t) == \E j \in 1..Len(s) : MatchLit(s, j, t)

\* the entry the Extractor makes of line i of text, NoEntry when it skips it
EntryOf(text, i) == ExtractLine(variant, Strip(SplitLines(text)[i]))

\* line i is the same in both texts
SameLine(old, new, i) ==
  /\ i <= Len(SplitLines(new))
  /\ SplitLines(new)[i] = SplitLines(old)[i]

\* every line of image name in old is the same in new
LinesOfUnchanged(name, old, new) ==
  \A i \in 1..Len(SplitLines(old)) :
     (EntryOf(old, i).ok /\ EntryOf(old, i).name = name) => SameLine(old, new, i)

MapNames == {updates[k].name : k \in 1..Len(updates)}

\* C1: once update_containerfile has read the build file, at every point of
\* the call, a crash between or during the two writes included, <path> or
\* <path>.backup holds the complete text that was read.
BackupBeforeOverwrite ==
  original_content # <<>> =>
     (fs_path = original_content[1] \/ fs_backup = original_content)

\* a crash during the write of <path>: the build file is cut short and the
\* backup holds the original
C1Witness ==
  /\ pc = "crashed"
  /\ original_content # <<>>
  /\ fs_path # original_content[1]
  /\ fs_backup = original_content

\* C5: when update_containerfile has returned, every line of an image whose
\* name is not a key of the update map is byte-identical, also when its name
\* is a prefix, suffix or other substring of a key or has a key as one.
ExactNameAnchoring ==
  pc = "uc_ret" =>
     LET old == SplitLines(original_content[1])
         new == SplitLines(fs_path)
     IN /\ Len(new) = Len(old)
        /\ \A i \in 1..Len(old) :
              LET e == ExtractLine(variant, Strip(old[i]))
              IN (e.ok /\ e.name \notin MapNames) => new[i] = old[i]

\* the file pins two images, one name a substring of the other, the map has
\* only one of the two, and the call rewrote the file
C5Witness ==
  /\ pc = "uc_ret"
  /\ fs_path # original_content[1]
  /\ \E i, j \in 1..Len(SplitLines(original_content[1])) :
        /\ EntryOf(original_content[1], i).ok
        /\ EntryOf(original_content[1], j).ok
        /\ EntryOf(original_content[1], i).name \in MapNames
        /\ EntryOf(original_content[1], j).name \notin MapNames
        /\ \/ Contains(EntryOf(original_content[1], j).name,
                       EntryOf(original_content[1], i).name)
           \/ Contains(EntryOf(original_content[1], i).name,
                       EntryOf(original_content[1], j).name)

\* the text pins image name to a digest somewhere: <name>@sha256: occurs
Present(name, text) == Contains(text, name \o LitAtSha)

\* the call has touched neither <path> nor <path>.backup
Untouched == fs_path = original_content[1] /\ fs_backup = backup0

\* some line pins, at the same place, another digest in new than in old
DigestChanged(old, new) ==
  \E i \in 1..Len(SplitLines(old)) :
     /\ i <= Len(SplitLines(new))
     /\ \E j \in 1..Len(SplitLines(old)[i]) :
           /\ MatchLit(SplitLines(old)[i], j, LitAtSha)
           /\ MatchLit(SplitLines(new)[i], j, LitAtSha)
           /\ SubSeq(SplitLines(old)[i], j, j + Len(LitAtSha) + DigestLen - 1)
              # SubSeq(SplitLines(new)[i], j, j + Len(LitAtSha) + DigestLen - 1)

Idempotent ==
  \A k \in 2..Len(applied) : applied[k] = applied[1]

\* two calls have returned and the first one rewrote the file
C8Witness ==
  /\ Len(applied) >= 2
  /\ applied[1] # file0

\* the entry has a digest of exactly 64 hex characters and its line pins
\* the image with @sha256:
EntryWellFormed(e) ==
  /\ Len(e.hash) = DigestLen
  /\ \A j \in 1..Len(e.hash) : IsHex(e.hash[j])
  /\ Contains(e.line, e.name \o LitAtSha \o e.hash)

\* C2: at the end of a run of main (here: on a build file whose extracted
\* lines are all well formed), for every image the Resolver returned no
\* digest for, every line of that image is unchanged, its name is in
\* failed_images and the exit status is nonzero.
AbsencePropagation ==
  (/\ pc \in {"exit", "raised"}
   /\ \A k \in 1..Len(images) : EntryWellFormed(images[k])) =>
     \A k \in 1..Len(calls) :
        calls[k].result = "none" =>
           /\ LinesOfUnchanged(calls[k].name, file0, fs_path)
           /\ \E i \in 1..Len(failed_images) : failed_images[i] = calls[k].name
           /\ exit_code # 0

\* line i of the build file shows the digest the update map has for its image
UpdateWritten(i) ==
  \A k \in 1..Len(updates) :
     (EntryOf(file0, i).ok /\ EntryOf(file0, i).name = updates[k].name) =>
        /\ i <= Len(SplitLines(fs_path))
        /\ EntryOf(fs_path, i).ok
        /\ EntryOf(fs_path, i).hash = updates[k].hash

\* C3: at the end of a run of main (here: on a build file that pins distinct
\* images on well-formed lines) in which an image failed to resolve and
\* another resolved to a new digest, every image was resolved, every
\* successful update is in the build file, and the exit status is nonzero.
FailureDoesNotBlockOthers ==
  (/\ pc \in {"exit", "raised"}
   /\ failed_images # <<>>
   /\ updates # <<>>
   /\ \A k \in 1..Len(images) : EntryWellFormed(images[k])
   /\ \A i, j \in 1..Len(images) : images[i].name = images[j].name => i = j) =>
     /\ Len(calls) = Len(images)
     /\ \A k \in 1..Len(calls) : calls[k].result # "raise"
     /\ \A i \in 1..Len(SplitLines(file0)) : UpdateWritten(i)
     /\ exit_code # 0

\* C4: get_arm64_hash returns a digest or None, whatever the image name and
\* the outcome of the external collaborator.
ResolverNeverRaises ==
  \A k \in 1..Len(calls) : calls[k].result \in {"digest", "none"}

\* C6: every entry extract_stagex_images returned has a digest of exactly
\* 64 hex characters and comes from a line that pins it with @sha256:.
ExtractedEntriesWellFormed ==
  pc # "main_extract" => \A k \in 1..Len(images) : EntryWellFormed(images[k])

\* C9: in a run of main (here: on a build file whose extracted lines are all
\* well formed, with a Resolver that does not raise) get_arm64_hash is
\* called at most once per image name, and a name is at most once in
\* failed_images.
OneCallPerDistinctName ==
  (/\ \A k \in 1..Len(images) : EntryWellFormed(images[k])
   /\ \A k \in 1..Len(calls) : calls[k].result # "raise") =>
     /\ \A i, j \in 1..Len(calls) : calls[i].name = calls[j].name => i = j
     /\ \A i, j \in 1..Len(failed_images) :
           failed_images[i] = failed_images[j] => i = j

\* C10: at the end of a run of main (here: on a build file whose extracted
\* lines are all well formed), every line the Extractor skipped is
\* byte-identical in the build file.
OnlyCandidateLinesChange ==
  (/\ pc = "exit"
   /\ \A k \in 1..Len(images) : EntryWellFormed(images[k])) =>
     \A i \in 1..Len(SplitLines(file0)) :
        ~EntryOf(file0, i).ok => SameLine(file0, fs_path, i)

====
